---- MODULE Spec2Model ----
(***************************************************************************)
(* A model of snet/core/synapse.py: AbstractSynapse and                    *)
(* ExponentialSTDPSynapse.                                                  *)
(*                                                                         *)
(* Reals are fixed-point integers, 1.0 = Unit.  A 1-D torch tensor is a    *)
(* sequence, a 2-D tensor a sequence of rows.  Where the shape of a tensor *)
(* decides whether an expression evaluates at all (boolean-mask indexing,  *)
(* broadcasting, in-place arithmetic) the tensor is a record               *)
(* [shape, data] with row-major data, and the torch rule is an operator.   *)
(* A raised exception ends the method where it is raised: what was         *)
(* assigned before stays assigned, and call.err names the exception.       *)
(***************************************************************************)
EXTENDS Integers, Sequences, FiniteSets, TLC

VARIABLES
  obj,                    \* class of the synapse object, "none" before construction
  pre_size, post_size,    \* pre_layer.size, post_layer.size
  weights,                \* self.weights
  _last_pre_spike_time,   \* self._last_pre_spike_time
  _last_post_spike_time,  \* self._last_post_spike_time
  static,                 \* self.static
  attrs,                  \* learning attributes that exist on the object
  tau_m, tau_p,           \* self.tau_m, self.tau_p (0 while not an attribute)
  learn_rate_m, learn_rate_p,
  time,                   \* self.network.time
  post_i,                 \* self.post_layer.i
  call                    \* the last operation invoked and how it ended

vars == <<obj, pre_size, post_size, weights, _last_pre_spike_time,
          _last_post_spike_time, static, attrs, tau_m, tau_p, learn_rate_m,
          learn_rate_p, time, post_i, call>>

----------------------------------------------------------------------------
(* Numbers *)

\* 1.0 in fixed point
Unit == 10^5

\* self.w_min = 0. and self.w_max = 1.
w_min == 0
w_max == Unit

\* -torch.ones(size): -1 means never fired before
Sentinel == -1

\* the sizes <<pre_layer.size, post_layer.size>> of the layers the model builds
LayerSizes == {<<1, 1>>, <<1, 2>>, <<2, 1>>}

\* the ticks the network clock takes, and how many of them the model uses
TimeLine == <<0, 5, 10, 12, 14>>
MaxTicks == 4
Times == {TimeLine[n] : n \in 1..MaxTicks}

\* time constants and learning rates a caller configures
TauValues == {5, 20}
RateValues == {Unit \div 10}

LearningAttrs == {"tau_m", "tau_p", "learn_rate_m", "learn_rate_p"}

\* weight entries a caller supplies: inside the bounds, above w_max, below w_min
Half == Unit \div 2
Above == (13 * Unit) \div 10
Below == -(Unit \div 5)
Pattern == <<Above, Below, Half, Unit \div 4>>

\* pre_layer.o entries
OutputValues == {0, 1}

----------------------------------------------------------------------------
(* Tensors *)

Shape(m) == <<Len(m), IF Len(m) = 0 THEN 0 ELSE Len(m[1])>>

Uniform(r, c, v) == [p \in 1..r |-> [q \in 1..c |-> v]]

Mixed(r, c) == [p \in 1..r |-> [q \in 1..c |-> Pattern[(((p - 1) * c + q - 1) % 4) + 1]]]

\* row-major data of a 2-D tensor
Flatten(m) ==
  LET r == Shape(m)[1]
      c == Shape(m)[2]
  IN [n \in 1..(r * c) |-> m[((n - 1) \div c) + 1][((n - 1) % c) + 1]]

Tensor2(m) == [shape |-> Shape(m), data |-> Flatten(m)]

\* fixed-point product, rounded, in parts that fit a machine integer
FMul(a, b) == a * (b \div Unit) + ((a * (b % Unit) + Unit \div 2) \div Unit)

\* torch.exp(-dt / tau) for the time constants of TauValues, dt in -15..15
Exp20 ==
  <<211700, 201375, 191554, 182212, 173325, 164872, 156831, 149182, 141907,
    134986, 128403, 122140, 116183, 110517, 105127, 100000, 95123, 90484,
    86071, 81873, 77880, 74082, 70469, 67032, 63763, 60653, 57695, 54881,
    52205, 49659, 47237>>
Exp5 ==
  <<2008554, 1644465, 1346374, 1102318, 902501, 738906, 604965, 495303,
    405520, 332012, 271828, 222554, 182212, 149182, 122140, 100000, 81873,
    67032, 54881, 44933, 36788, 30119, 24660, 20190, 16530, 13534, 11080,
    9072, 7427, 6081, 4979>>
ExpNeg(dt, tau) == IF tau = 20 THEN Exp20[dt + 16] ELSE Exp5[dt + 16]

\* torch.ger on two boolean vectors: the outer product
Ger(a, b) == [p \in 1..Len(a) |-> [q \in 1..Len(b) |-> a[p] /\ b[q]]]

\* x[mask] for a boolean mask of x's shape: the selected entries, row-major, 1-D
RECURSIVE SelectFrom(_, _, _)
SelectFrom(data, mask, n) ==
  IF n > Len(data) THEN <<>>
  ELSE (IF mask[n] THEN <<data[n]>> ELSE <<>>) \o SelectFrom(data, mask, n + 1)

MaskedSelect(w, mask) ==
  LET d == SelectFrom(Flatten(w), Flatten(mask), 1)
  IN [shape |-> <<Len(d)>>, data |-> d]

\* broadcasting: shapes are aligned at the trailing dimension, a missing
\* leading dimension counts as 1, and two sizes agree when equal or one is 1
Pad2(s) == IF Len(s) = 1 THEN <<1, s[1]>> ELSE s
DimOK(a, b) == a = b \/ a = 1 \/ b = 1
DimOf(a, b) == IF a = 1 THEN b ELSE a
Broadcastable(s, t) ==
  DimOK(Pad2(s)[1], Pad2(t)[1]) /\ DimOK(Pad2(s)[2], Pad2(t)[2])
BroadcastShape(s, t) ==
  LET r == <<DimOf(Pad2(s)[1], Pad2(t)[1]), DimOf(Pad2(s)[2], Pad2(t)[2])>>
  IN IF Len(s) = 1 /\ Len(t) = 1 THEN <<r[2]>> ELSE r

Numel(s) == IF Len(s) = 1 THEN s[1] ELSE s[1] * s[2]

\* entry (i, j) of x seen at a broadcast shape
At(x, i, j) ==
  LET s == Pad2(x.shape)
  IN x.data[(IF s[1] = 1 THEN 0 ELSE i - 1) * s[2] + (IF s[2] = 1 THEN 1 ELSE j)]

\* an elementwise binary operation on two broadcastable tensors
Apply(op, a, b) ==
  CASE op = "mul" -> FMul(a, b)
    [] op = "sub" -> a - b
    [] op = "add" -> a + b

Elementwise(op, x, y) ==
  LET r == BroadcastShape(x.shape, y.shape)
      c == Pad2(r)[2]
  IN [shape |-> r,
      data |-> [n \in 1..Numel(r) |->
                 Apply(op, At(x, ((n - 1) \div c) + 1, ((n - 1) % c) + 1),
                           At(y, ((n - 1) \div c) + 1, ((n - 1) % c) + 1))]]

\* x.sub_(y), x.add_(y): the in-place tensor may not change shape
InplaceOK(s, t) == Broadcastable(s, t) /\ BroadcastShape(s, t) = s

\* w[mask] = values, values 1-D with one entry per selected position
RECURSIVE CountBefore(_, _)
CountBefore(mask, n) ==
  IF n = 0 THEN 0 ELSE CountBefore(mask, n - 1) + (IF mask[n] THEN 1 ELSE 0)

IndexPut(w, mask, values) ==
  LET c == Shape(w)[2]
      fm == Flatten(mask)
  IN [p \in 1..Len(w) |-> [q \in 1..c |->
        IF mask[p][q] THEN values[CountBefore(fm, (p - 1) * c + q)] ELSE w[p][q]]]

\* torch.matmul of a vector and a matrix
RECURSIVE Dot(_, _, _, _)
Dot(o, w, q, n) == IF n = 0 THEN 0 ELSE Dot(o, w, q, n - 1) + o[n] * w[n][q]

Matmul(o, w) == [q \in 1..Shape(w)[2] |-> Dot(o, w, q, Len(o))]

----------------------------------------------------------------------------
(* AbstractSynapse *)

\* the weight matrices a caller hands to the constructor for layers of sizes
\* p and q: two of the layers' shape, and one with a row too many
WeightArgs(p, q) == {Uniform(p, q, Half), Mixed(p, q), Uniform(p + 1, q, Half)}

Ended(op, err) == [op |-> op, err |-> err]

\* a hook of ExponentialSTDPSynapse, with the firing_mask its layer had
Called(op, err, firing_mask) == [op |-> op, err |-> err, firing_mask |-> firing_mask]

\* no synapse yet: two sized layers and a network at its first tick
Init ==
  /\ obj = "none"
  /\ \E s \in LayerSizes : pre_size = s[1] /\ post_size = s[2]
  /\ weights = <<>>
  /\ _last_pre_spike_time = <<>>
  /\ _last_post_spike_time = <<>>
  /\ static = FALSE
  /\ attrs = {}
  /\ tau_m = 0
  /\ tau_p = 0
  /\ learn_rate_m = 0
  /\ learn_rate_p = 0
  /\ time = TimeLine[1]
  /\ post_i = [q \in 1..post_size |-> 0]
  /\ call = Ended("none", "none")

\* AbstractSynapse.__init__, and ExponentialSTDPSynapse.__init__ which only
\* calls it: the fields are assigned as given, nothing is compared or raised,
\* and no learning attribute is assigned
__init__(cls, w) ==
  /\ obj = "none"
  /\ obj' = cls
  /\ weights' = w
  /\ _last_pre_spike_time' = [k \in 1..pre_size |-> Sentinel]
  /\ _last_post_spike_time' = [k \in 1..post_size |-> Sentinel]
  /\ static' = FALSE
  /\ call' = Ended("__init__", "none")
  /\ UNCHANGED <<pre_size, post_size, attrs, tau_m, tau_p, learn_rate_m,
                 learn_rate_p, time, post_i>>

\* clamp_ called with min and max exchanged: every entry becomes max
ClampEntrySwapped(x) == w_min

\* self.weights.clamp_(min=self.w_min, max=self.w_max)
ClampEntry(x) == IF x < w_min THEN w_min ELSE IF x > w_max THEN w_max ELSE x

Clamped(w) == [p \in 1..Len(w) |-> [q \in 1..Len(w[p]) |-> ClampEntry(w[p][q])]]

\* a forward that clamps the weights it reads
forwardClamping(o) ==
  /\ obj # "none"
  /\ weights' = Clamped(weights)
  /\ IF Len(o) = Shape(weights)[1]
       THEN /\ post_i' = Matmul(o, weights)
            /\ call' = Ended("forward", "none")
       ELSE /\ post_i' = post_i
            /\ call' = Ended("forward", "RuntimeError")
  /\ UNCHANGED <<obj, pre_size, post_size, _last_pre_spike_time,
                 _last_post_spike_time, static, attrs, tau_m, tau_p,
                 learn_rate_m, learn_rate_p, time>>

\* torch.matmul(pre, self.weights): a vector of pre_size entries times a
\* matrix needs pre_size rows, and gives one entry per column
forward(o) ==
  /\ obj # "none"
  /\ IF Len(o) = Shape(weights)[1]
       THEN /\ post_i' = Matmul(o, weights)
            /\ call' = Ended("forward", "none")
       ELSE /\ post_i' = post_i
            /\ call' = Ended("forward", "RuntimeError")
  /\ UNCHANGED <<obj, pre_size, post_size, weights, _last_pre_spike_time,
                 _last_post_spike_time, static, attrs, tau_m, tau_p,
                 learn_rate_m, learn_rate_p, time>>

_clamp ==
  /\ obj # "none"
  /\ weights' = Clamped(weights)
  /\ call' = Ended("_clamp", "none")
  /\ UNCHANGED <<obj, pre_size, post_size, _last_pre_spike_time,
                 _last_post_spike_time, static, attrs, tau_m, tau_p,
                 learn_rate_m, learn_rate_p, time, post_i>>

\* a base class whose hook is an empty method
Abstract_update_on_pre_spikes_pass ==
  /\ obj = "AbstractSynapse"
  /\ call' = Ended("update_on_pre_spikes", "none")
  /\ UNCHANGED <<obj, pre_size, post_size, weights, _last_pre_spike_time,
                 _last_post_spike_time, static, attrs, tau_m, tau_p,
                 learn_rate_m, learn_rate_p, time, post_i>>

\* the base class's hooks only raise
Abstract_update_on_pre_spikes ==
  /\ obj = "AbstractSynapse"
  /\ call' = Ended("update_on_pre_spikes", "NotImplementedError")
  /\ UNCHANGED <<obj, pre_size, post_size, weights, _last_pre_spike_time,
                 _last_post_spike_time, static, attrs, tau_m, tau_p,
                 learn_rate_m, learn_rate_p, time, post_i>>

Abstract_update_on_post_spikes ==
  /\ obj = "AbstractSynapse"
  /\ call' = Ended("update_on_post_spikes", "NotImplementedError")
  /\ UNCHANGED <<obj, pre_size, post_size, weights, _last_pre_spike_time,
                 _last_post_spike_time, static, attrs, tau_m, tau_p,
                 learn_rate_m, learn_rate_p, time, post_i>>

----------------------------------------------------------------------------
(* ExponentialSTDPSynapse *)

Raised(err) == [weights |-> weights, err |-> err]

\* a hook that never looks at self.static
FrozenNever == FALSE

\* if self.static: return
Frozen == static

\* the sentinel taken for a spike time
EverFiredOrNever(last) == [k \in 1..Len(last) |-> last[k] >= Sentinel]

\* last >= 0: the neurons that fired before
EverFired(last) == [k \in 1..Len(last) |-> last[k] >= 0]

\* dt <= 2 * tau
WindowMask(dt, tau) == [p \in 1..Len(dt) |-> [q \in 1..Len(dt[p]) |-> dt[p][q] <= 2 * tau]]

\* active &= window_mask
AndMask(a, b) == [p \in 1..Len(a) |-> [q \in 1..Len(a[p]) |-> a[p][q] /\ b[p][q]]]

\* torch.exp(-dt / tau), a tensor of dt's shape
ExpTensor(dt, tau) ==
  Tensor2([p \in 1..Len(dt) |-> [q \in 1..Len(dt[p]) |-> ExpNeg(dt[p][q], tau)]])

\* scalar * (x - scalar), x 1-D
Headroom(rate, x, sign, bound) ==
  [shape |-> x.shape,
   data |-> [k \in 1..Len(x.data) |-> FMul(rate, sign * (x.data[k] - bound))]]

\* the whole vector rewritten from the mask: a neuron not firing now is reset
RecordPreResetting(firing_mask) ==
  [k \in 1..pre_size |-> IF firing_mask[k] THEN time ELSE Sentinel]

\* self._last_pre_spike_time[self.pre_layer.firing_mask] = self.time
RecordPre(firing_mask) ==
  [k \in 1..pre_size |-> IF firing_mask[k] THEN time ELSE _last_pre_spike_time[k]]

\* the difference taken the other way round: post time - pre time
PreDtReversed(firing_mask) ==
  [p \in 1..pre_size |-> [q \in 1..post_size |->
     _last_post_spike_time[q] - RecordPre(firing_mask)[p]]]

\* dt[p][q] = pre time of p - post time of q, the pre times as just recorded
PreDt(firing_mask) ==
  [p \in 1..pre_size |-> [q \in 1..post_size |->
     RecordPre(firing_mask)[p] - _last_post_spike_time[q]]]

\* new pre-spikes and fired post-spikes
PreGer(firing_mask) == Ger(firing_mask, EverFired(_last_post_spike_time))

\* the pairs the pre hook updates: active after active &= window_mask
PreActive(firing_mask) ==
  AndMask(PreGer(firing_mask), WindowMask(PreDt(firing_mask), tau_m))

\* a pre hook that applies the post hook's rule to its pairs
PreOutcomePotentiating(firing_mask) ==
  [weights |-> [p \in 1..Len(weights) |-> [q \in 1..Len(weights[p]) |->
                  IF p <= pre_size /\ q <= post_size /\ PreGer(firing_mask)[p][q]
                    THEN ClampEntry(weights[p][q]
                                    + FMul(Unit \div 10, w_max - weights[p][q]))
                    ELSE weights[p][q]]],
   err |-> "none"]

\* update_on_pre_spikes from the window test on: the weights it leaves and the
\* exception it ends with
PreOutcome(firing_mask) ==
  IF "tau_m" \notin attrs THEN Raised("AttributeError")
  ELSE IF "learn_rate_m" \notin attrs THEN Raised("AttributeError")
  ELSE IF Shape(PreActive(firing_mask)) # Shape(weights) THEN Raised("IndexError")
  ELSE
    LET active == PreActive(firing_mask)
        sel == MaskedSelect(weights, active)
        head == Headroom(learn_rate_m, sel, 1, w_min)
        decay == ExpTensor(PreDt(firing_mask), tau_m)
    IN IF ~Broadcastable(head.shape, decay.shape) THEN Raised("RuntimeError")
       ELSE
         LET dw == Elementwise("mul", head, decay)
         IN IF ~InplaceOK(sel.shape, dw.shape) THEN Raised("RuntimeError")
            ELSE [weights |-> Clamped(IndexPut(weights, active,
                                               Elementwise("sub", sel, dw).data)),
                  err |-> "none"]

update_on_pre_spikes(firing_mask) ==
  /\ obj = "ExponentialSTDPSynapse"
  /\ IF Frozen
       THEN /\ UNCHANGED <<weights, _last_pre_spike_time>>
            /\ call' = Called("update_on_pre_spikes", "none", firing_mask)
       ELSE /\ _last_pre_spike_time' = RecordPre(firing_mask)
            /\ weights' = PreOutcome(firing_mask).weights
            /\ call' = Called("update_on_pre_spikes", PreOutcome(firing_mask).err,
                              firing_mask)
  /\ UNCHANGED <<obj, pre_size, post_size, _last_post_spike_time, static, attrs,
                 tau_m, tau_p, learn_rate_m, learn_rate_p, time, post_i>>

\* the time written to every post neuron, firing or not
RecordPostEvery(firing_mask) == [k \in 1..post_size |-> time]

\* self._last_post_spike_time[self.post_layer.firing_mask] = self.time
RecordPost(firing_mask) ==
  [k \in 1..post_size |-> IF firing_mask[k] THEN time ELSE _last_post_spike_time[k]]

\* dt[p][q] = post time of q - pre time of p, the post times as just recorded
PostDt(firing_mask) ==
  [p \in 1..pre_size |-> [q \in 1..post_size |->
     RecordPost(firing_mask)[q] - _last_pre_spike_time[p]]]

\* fired pre-spikes and new post-spikes
PostGer(firing_mask) == Ger(EverFired(_last_pre_spike_time), firing_mask)

\* the pairs the post hook updates: active after active &= window_mask
PostActive(firing_mask) ==
  AndMask(PostGer(firing_mask), WindowMask(PostDt(firing_mask), tau_p))

\* update_on_post_spikes from the window test on
PostOutcome(firing_mask) ==
  IF "tau_p" \notin attrs THEN Raised("AttributeError")
  ELSE IF "learn_rate_p" \notin attrs THEN Raised("AttributeError")
  ELSE IF Shape(PostActive(firing_mask)) # Shape(weights) THEN Raised("IndexError")
  ELSE
    LET active == PostActive(firing_mask)
        sel == MaskedSelect(weights, active)
        head == Headroom(learn_rate_p, sel, -1, w_max)
        decay == ExpTensor(PostDt(firing_mask), tau_p)
    IN IF ~Broadcastable(head.shape, decay.shape) THEN Raised("RuntimeError")
       ELSE
         LET dw == Elementwise("mul", head, decay)
         IN IF ~InplaceOK(sel.shape, dw.shape) THEN Raised("RuntimeError")
            ELSE [weights |-> Clamped(IndexPut(weights, active,
                                               Elementwise("add", sel, dw).data)),
                  err |-> "none"]

update_on_post_spikes(firing_mask) ==
  /\ obj = "ExponentialSTDPSynapse"
  /\ IF Frozen
       THEN /\ UNCHANGED <<weights, _last_post_spike_time>>
            /\ call' = Called("update_on_post_spikes", "none", firing_mask)
       ELSE /\ _last_post_spike_time' = RecordPost(firing_mask)
            /\ weights' = PostOutcome(firing_mask).weights
            /\ call' = Called("update_on_post_spikes", PostOutcome(firing_mask).err,
                              firing_mask)
  /\ UNCHANGED <<obj, pre_size, post_size, _last_pre_spike_time, static, attrs,
                 tau_m, tau_p, learn_rate_m, learn_rate_p, time, post_i>>

----------------------------------------------------------------------------
(* The collaborators: the network clock and the caller that configures *)

\* network.time moves to a later tick
Tick(t) ==
  /\ t > time
  /\ time' = t
  /\ call' = Ended("none", "none")
  /\ UNCHANGED <<obj, pre_size, post_size, weights, _last_pre_spike_time,
                 _last_post_spike_time, static, attrs, tau_m, tau_p,
                 learn_rate_m, learn_rate_p, post_i>>

\* synapse.static = b
SetStatic(b) ==
  /\ obj # "none"
  /\ b # static
  /\ static' = b
  /\ call' = Ended("none", "none")
  /\ UNCHANGED <<obj, pre_size, post_size, weights, _last_pre_spike_time,
                 _last_post_spike_time, attrs, tau_m, tau_p, learn_rate_m,
                 learn_rate_p, time, post_i>>

\* the learning options, assigned on the constructed object
SetLearningOptions(tau, rate) ==
  /\ obj = "ExponentialSTDPSynapse"
  /\ attrs = {}
  /\ attrs' = LearningAttrs
  /\ tau_m' = tau
  /\ tau_p' = tau
  /\ learn_rate_m' = rate
  /\ learn_rate_p' = rate
  /\ call' = Ended("none", "none")
  /\ UNCHANGED <<obj, pre_size, post_size, weights, _last_pre_spike_time,
                 _last_post_spike_time, static, time, post_i>>

Masks(n) == [1..n -> BOOLEAN]

Next ==
  \/ \E cls \in {"AbstractSynapse", "ExponentialSTDPSynapse"} :
       \E w \in WeightArgs(pre_size, post_size) : __init__(cls, w)
  \/ \E o \in [1..pre_size -> OutputValues] : forward(o)
  \/ _clamp
  \/ Abstract_update_on_pre_spikes
  \/ Abstract_update_on_post_spikes
  \/ \E firing_mask \in Masks(pre_size) : update_on_pre_spikes(firing_mask)
  \/ \E firing_mask \in Masks(post_size) : update_on_post_spikes(firing_mask)
  \/ \E t \in Times : Tick(t)
  \/ \E b \in BOOLEAN : SetStatic(b)
  \/ \E tau \in TauValues : \E rate \in RateValues : SetLearningOptions(tau, rate)

Spec == Init /\ [][Next]_vars

----------------------------------------------------------------------------
(* Properties *)

Hooks == {"update_on_pre_spikes", "update_on_post_spikes"}

STDP == obj = "ExponentialSTDPSynapse"

WellShaped == Shape(weights) = <<pre_size, post_size>>

InBounds(w) ==
  \A p \in 1..Len(w) : \A q \in 1..Len(w[p]) : w_min <= w[p][q] /\ w[p][q] <= w_max

SpikeTimesUnchanged ==
  /\ _last_pre_spike_time' = _last_pre_spike_time
  /\ _last_post_spike_time' = _last_post_spike_time

\* C1: after every call of a hook of an ExponentialSTDPSynapse that returns,
\* every weight lies in [w_min, w_max].
C1_BoundsAfterEveryHook ==
  (STDP /\ WellShaped /\ call.op \in Hooks /\ call.err = "none") => InBounds(weights)

\* C2: while static is true a hook call leaves weights and both spike-time
\* vectors as they were, whatever the firing mask and the time.
C2_StaticFreeze ==
  [][(static /\ call'.op \in Hooks) =>
       (weights' = weights /\ SpikeTimesUnchanged)]_vars

C2_Witness ==
  /\ STDP /\ WellShaped /\ static
  /\ call.op = "update_on_pre_spikes"
  /\ time > 0
  /\ \E k \in 1..pre_size : _last_pre_spike_time[k] = TimeLine[1]

\* C3: a neuron whose spike time is the sentinel is in no eligible pair: the
\* pre hook's mask selects no pair of a never-fired post neuron and changes no
\* weight of its column, the post hook's mask selects no pair of a never-fired
\* pre neuron and changes no weight of its row (weights in bounds before).
C3_SentinelExcluded ==
  /\ [](STDP =>
          /\ \A fm \in Masks(pre_size) : \A p \in 1..pre_size : \A q \in 1..post_size :
               _last_post_spike_time[q] = Sentinel =>
                 /\ ~PreGer(fm)[p][q]
                 /\ ~PreActive(fm)[p][q]
          /\ \A fm \in Masks(post_size) : \A p \in 1..pre_size : \A q \in 1..post_size :
               _last_pre_spike_time[p] = Sentinel =>
                 /\ ~PostGer(fm)[p][q]
                 /\ ~PostActive(fm)[p][q])
  /\ [][(STDP /\ WellShaped /\ InBounds(weights)) =>
          /\ call'.op = "update_on_pre_spikes" =>
               \A p \in 1..pre_size : \A q \in 1..post_size :
                 _last_post_spike_time[q] = Sentinel => weights'[p][q] = weights[p][q]
          /\ call'.op = "update_on_post_spikes" =>
               \A p \in 1..pre_size : \A q \in 1..post_size :
                 _last_pre_spike_time[p] = Sentinel => weights'[p][q] = weights[p][q]
        ]_vars

C3_Witness ==
  /\ STDP /\ WellShaped /\ ~static /\ attrs = LearningAttrs
  /\ InBounds(weights)
  /\ call.op = "update_on_pre_spikes"
  /\ \E k \in 1..pre_size : _last_pre_spike_time[k] = time
  /\ \E q \in 1..post_size : _last_post_spike_time[q] = Sentinel
  /\ \E q \in 1..post_size : _last_post_spike_time[q] >= 0

\* the product of a vector and a matrix, written out
RECURSIVE SumTo(_, _, _, _)
SumTo(o, w, q, n) == IF n = 0 THEN 0 ELSE o[n] * w[n][q] + SumTo(o, w, q, n - 1)

IsProduct(v, o, w) ==
  /\ Len(v) = Len(w[1])
  /\ \A q \in 1..Len(v) : v[q] = SumTo(o, w, q, Len(w))

\* C4: forward() changes neither weights nor the spike-time vectors; what it
\* writes is post_layer.i, the product of pre_layer.o and the weights.
C4_ForwardPure ==
  [][call'.op = "forward" =>
      /\ weights' = weights
      /\ SpikeTimesUnchanged
      /\ UNCHANGED <<static, attrs, tau_m, tau_p, learn_rate_m, learn_rate_p, time>>
      /\ IF call'.err = "none"
           THEN \E o \in [1..pre_size -> OutputValues] : IsProduct(post_i', o, weights)
           ELSE post_i' = post_i
    ]_vars

C4_Witness ==
  /\ STDP /\ WellShaped
  /\ call = Ended("forward", "none")
  /\ \E k \in 1..pre_size : _last_pre_spike_time[k] >= 0
  /\ \E q \in 1..post_size : post_i[q] # 0
  /\ ~InBounds(weights)

\* C5: no synapse exists whose weight matrix is not of shape
\* pre_layer.size x post_layer.size: construction with such a matrix fails.
C5_NoMismatchedSynapse == obj # "none" => WellShaped

\* C6: on a well-shaped, non-static ExponentialSTDPSynapse as its constructor
\* leaves it, every hook call runs to completion without raising.
C6_HooksComplete ==
  (STDP /\ WellShaped /\ ~static /\ attrs = {} /\ call.op \in Hooks) => call.err = "none"

\* C7: a hook of the abstract base raises the unimplemented-rule error and
\* leaves weights and both spike-time vectors as they were.
C7_AbstractHooksRaise ==
  [][(obj = "AbstractSynapse" /\ call'.op \in Hooks) =>
       /\ call'.err = "NotImplementedError"
       /\ weights' = weights
       /\ SpikeTimesUnchanged]_vars

C7_Witness ==
  /\ obj = "AbstractSynapse"
  /\ call = Ended("update_on_pre_spikes", "NotImplementedError")
  /\ time > 0

\* C8: with the network time not decreasing, no spike-time entry ever
\* decreases and none returns to the sentinel.
C8_SpikeTimesForward ==
  [][obj # "none" =>
      /\ \A k \in 1..pre_size :
           /\ _last_pre_spike_time'[k] >= _last_pre_spike_time[k]
           /\ _last_pre_spike_time[k] # Sentinel => _last_pre_spike_time'[k] # Sentinel
      /\ \A k \in 1..post_size :
           /\ _last_post_spike_time'[k] >= _last_post_spike_time[k]
           /\ _last_post_spike_time[k] # Sentinel => _last_post_spike_time'[k] # Sentinel
    ]_vars

C8_Witness ==
  /\ STDP
  /\ call.op = "update_on_pre_spikes"
  /\ \E k \in 1..pre_size : \E j \in 1..pre_size :
       /\ _last_pre_spike_time[k] = time
       /\ _last_pre_spike_time[j] >= 0
       /\ _last_pre_spike_time[j] < time

\* the numeric scenario's synapse: one pre and one post neuron, tau 20, rates 0.1
Scenario ==
  /\ STDP /\ ~static
  /\ pre_size = 1 /\ post_size = 1 /\ WellShaped
  /\ attrs = LearningAttrs
  /\ tau_m = 20 /\ tau_p = 20
  /\ learn_rate_m = Unit \div 10 /\ learn_rate_p = Unit \div 10

About(x, v) == v - 2 <= x /\ x <= v + 2

\* C9: in the scenario, from weight 0.5: (1) post fires at 5, pre never fired,
\* the weight stays 0.5; (2) pre fires at 10, the weight becomes about 0.46106;
\* (3) post fires at 12, the weight becomes about 0.50983.
C9_NumericScenario ==
  [][Scenario =>
      /\ ( /\ weights[1][1] = Half
           /\ _last_pre_spike_time[1] = Sentinel
           /\ time = 5
           /\ call'.op = "update_on_post_spikes"
           /\ _last_post_spike_time'[1] = 5 )
         => weights'[1][1] = Half
      /\ ( /\ weights[1][1] = Half
           /\ _last_pre_spike_time[1] = Sentinel
           /\ _last_post_spike_time[1] = 5
           /\ time = 10
           /\ call'.op = "update_on_pre_spikes"
           /\ _last_pre_spike_time'[1] = 10 )
         => About(weights'[1][1], 46106)
      /\ ( /\ About(weights[1][1], 46106)
           /\ _last_pre_spike_time[1] = 10
           /\ _last_post_spike_time[1] = 5
           /\ time = 12
           /\ call'.op = "update_on_post_spikes"
           /\ _last_post_spike_time'[1] = 12 )
         => About(weights'[1][1], 50983)
    ]_vars

\* C10: _clamp() twice in a row gives what _clamp() once gives, and weights
\* already in [w_min, w_max] are left as they are.
C10_ClampIdempotent ==
  [][call'.op = "_clamp" =>
      /\ Clamped(weights') = weights'
      /\ InBounds(weights) => weights' = weights
    ]_vars

C10_Witness ==
  /\ call.op = "_clamp"
  /\ \E p \in 1..Len(weights) : \E q \in 1..Len(weights[p]) : weights[p][q] = w_max
  /\ \E p \in 1..Len(weights) : \E q \in 1..Len(weights[p]) : weights[p][q] = w_min

----------------------------------------------------------------------------
(* Properties of the learning rule *)

\* a well-shaped, non-static ExponentialSTDPSynapse with its four learning
\* attributes assigned
Configured == STDP /\ WellShaped /\ ~static /\ attrs = LearningAttrs

Pairs == (1..pre_size) \X (1..post_size)

\* the rule read pair by pair: what one pair's weight w becomes at timing
\* difference dt, before the clamp
Depressed(w, dt) == w - FMul(FMul(learn_rate_m, w - w_min), ExpNeg(dt, tau_m))
Potentiated(w, dt) == w + FMul(FMul(learn_rate_p, w_max - w), ExpNeg(dt, tau_p))

C12_MaskedUpdate ==
  [][(Configured /\ InBounds(weights)) =>
      /\ call'.op = "update_on_pre_spikes" =>
           \A pq \in Pairs :
             weights'[pq[1]][pq[2]] =
               IF PreActive(call'.firing_mask)[pq[1]][pq[2]]
                 THEN ClampEntry(Depressed(weights[pq[1]][pq[2]],
                                           PreDt(call'.firing_mask)[pq[1]][pq[2]]))
                 ELSE weights[pq[1]][pq[2]]
      /\ call'.op = "update_on_post_spikes" =>
           \A pq \in Pairs :
             weights'[pq[1]][pq[2]] =
               IF PostActive(call'.firing_mask)[pq[1]][pq[2]]
                 THEN ClampEntry(Potentiated(weights[pq[1]][pq[2]],
                                             PostDt(call'.firing_mask)[pq[1]][pq[2]]))
                 ELSE weights[pq[1]][pq[2]]
    ]_vars

\* C13: a non-static update_on_pre_spikes() at time t sets the pre entry of
\* every firing neuron to t, leaves every other pre entry and the whole post
\* vector as they were; update_on_post_spikes() likewise on the post side.
C13_RecordExactlyFiring ==
  [][(STDP /\ ~static) =>
      /\ call'.op = "update_on_pre_spikes" =>
           /\ \A k \in 1..pre_size :
                _last_pre_spike_time'[k] =
                  IF call'.firing_mask[k] THEN time ELSE _last_pre_spike_time[k]
           /\ _last_post_spike_time' = _last_post_spike_time
      /\ call'.op = "update_on_post_spikes" =>
           /\ \A k \in 1..post_size :
                _last_post_spike_time'[k] =
                  IF call'.firing_mask[k] THEN time ELSE _last_post_spike_time[k]
           /\ _last_pre_spike_time' = _last_pre_spike_time
    ]_vars

C13_Witness ==
  /\ STDP /\ ~static
  /\ call.op = "update_on_post_spikes"
  /\ \E k \in 1..post_size : \E j \in 1..post_size :
       /\ call.firing_mask[k] /\ _last_post_spike_time[k] = time
       /\ ~call.firing_mask[j]
       /\ _last_post_spike_time[j] >= 0 /\ _last_post_spike_time[j] < time
  /\ \E p \in 1..pre_size :
       _last_pre_spike_time[p] >= 0 /\ _last_pre_spike_time[p] < time

\* C14: a pair (newly firing, partner fired before) with dt > 2 * tau gets no
\* weight change (tau_m in the pre hook, tau_p in the post hook), and a pair
\* with dt exactly 2 * tau is still updated.
C14_WindowExcludesDistant ==
  [][(Configured /\ InBounds(weights)) =>
      /\ call'.op = "update_on_pre_spikes" =>
           \A pq \in Pairs :
             (call'.firing_mask[pq[1]] /\ _last_post_spike_time[pq[2]] >= 0) =>
               /\ time - _last_post_spike_time[pq[2]] > 2 * tau_m =>
                    weights'[pq[1]][pq[2]] = weights[pq[1]][pq[2]]
               /\ ( /\ time - _last_post_spike_time[pq[2]] = 2 * tau_m
                    /\ weights[pq[1]][pq[2]] > w_min )
                  => weights'[pq[1]][pq[2]] < weights[pq[1]][pq[2]]
      /\ call'.op = "update_on_post_spikes" =>
           \A pq \in Pairs :
             (call'.firing_mask[pq[2]] /\ _last_pre_spike_time[pq[1]] >= 0) =>
               /\ time - _last_pre_spike_time[pq[1]] > 2 * tau_p =>
                    weights'[pq[1]][pq[2]] = weights[pq[1]][pq[2]]
               /\ ( /\ time - _last_pre_spike_time[pq[1]] = 2 * tau_p
                    /\ weights[pq[1]][pq[2]] < w_max )
                  => weights'[pq[1]][pq[2]] > weights[pq[1]][pq[2]]
    ]_vars

C16_SecondCallAppliesAgain ==
  (Configured /\ InBounds(weights) /\ call.op \in Hooks) =>
    /\ call.op = "update_on_pre_spikes" =>
         /\ RecordPre(call.firing_mask) = _last_pre_spike_time
         /\ \A pq \in Pairs : PreActive(call.firing_mask)[pq[1]][pq[2]] =>
              PreOutcome(call.firing_mask).weights[pq[1]][pq[2]] =
                ClampEntry(Depressed(weights[pq[1]][pq[2]],
                                     PreDt(call.firing_mask)[pq[1]][pq[2]]))
    /\ call.op = "update_on_post_spikes" =>
         /\ RecordPost(call.firing_mask) = _last_post_spike_time
         /\ \A pq \in Pairs : PostActive(call.firing_mask)[pq[1]][pq[2]] =>
              PostOutcome(call.firing_mask).weights[pq[1]][pq[2]] =
                ClampEntry(Potentiated(weights[pq[1]][pq[2]],
                                       PostDt(call.firing_mask)[pq[1]][pq[2]]))

\* C17: when a pre neuron p and a post neuron q that never fired before fire
\* in the same tick, the order of the hooks decides the weight: after the pre
\* hook the post hook potentiates weights[p][q] with dt = 0, after the post
\* hook the pre hook depresses it with dt = 0; in both orders both neurons
\* end stamped with the current time.
C17_HooksDoNotCommute ==
  [][(Configured /\ InBounds(weights)) =>
      /\ (call.op = "update_on_pre_spikes" /\ call'.op = "update_on_post_spikes") =>
           \A pq \in Pairs :
             ( /\ call.firing_mask[pq[1]] /\ call'.firing_mask[pq[2]]
               /\ _last_post_spike_time[pq[2]] = Sentinel ) =>
               /\ weights'[pq[1]][pq[2]] = ClampEntry(Potentiated(weights[pq[1]][pq[2]], 0))
               /\ _last_pre_spike_time'[pq[1]] = time
               /\ _last_post_spike_time'[pq[2]] = time
      /\ (call.op = "update_on_post_spikes" /\ call'.op = "update_on_pre_spikes") =>
           \A pq \in Pairs :
             ( /\ call.firing_mask[pq[2]] /\ call'.firing_mask[pq[1]]
               /\ _last_pre_spike_time[pq[1]] = Sentinel ) =>
               /\ weights'[pq[1]][pq[2]] = ClampEntry(Depressed(weights[pq[1]][pq[2]], 0))
               /\ _last_pre_spike_time'[pq[1]] = time
               /\ _last_post_spike_time'[pq[2]] = time
    ]_vars

\* C18: in every reachable state, whatever the firing mask, the dt of every
\* pair a hook would take (new spike on its side, partner fired before, hence
\* of every eligible pair) is at least 0 and at most the current time, and no
\* recorded spike time is later than the current time.
C18_EligibleDtNonNegative ==
  STDP =>
    /\ \A k \in 1..pre_size : _last_pre_spike_time[k] <= time
    /\ \A k \in 1..post_size : _last_post_spike_time[k] <= time
    /\ \A fm \in Masks(pre_size) : \A pq \in Pairs :
         PreGer(fm)[pq[1]][pq[2]] =>
           /\ 0 <= PreDt(fm)[pq[1]][pq[2]]
           /\ PreDt(fm)[pq[1]][pq[2]] <= time
    /\ \A fm \in Masks(post_size) : \A pq \in Pairs :
         PostGer(fm)[pq[1]][pq[2]] =>
           /\ 0 <= PostDt(fm)[pq[1]][pq[2]]
           /\ PostDt(fm)[pq[1]][pq[2]] <= time

C18_Witness ==
  /\ STDP /\ ~static /\ time > 0
  /\ call.op = "update_on_pre_spikes"
  /\ \E pq \in Pairs :
       /\ PreActive(call.firing_mask)[pq[1]][pq[2]]
       /\ PreDt(call.firing_mask)[pq[1]][pq[2]] > 0
  /\ \E k \in 1..post_size : _last_post_spike_time[k] = time

====
